---- MODULE Spec2Model ----
(***************************************************************************)
(* EventPoller (phoenix-sdk, event_poller.rs): a background worker that    *)
(* polls the confirmed signatures of one market address, decodes each new  *)
(* transaction into events and sends one Vec of events per transaction on  *)
(* an mpsc channel.                                                        *)
(*                                                                         *)
(* The worker body EventPoller::run is modelled one suspension point per   *)
(* step (build the request, the RPC call, the iterator's next, the decode  *)
(* awaited by block_on, the channel send, the sleep).  The ledger and the  *)
(* consumer are the environment: transactions are confirmed and the        *)
(* receiver may be dropped at any moment between two steps of the worker.  *)
(***************************************************************************)
EXTENDS Integers, Sequences, FiniteSets

\* Number of distinct transaction signatures that can ever be confirmed.
MaxSigs == 4
\* Longest transaction history the address may already have at construction.
MaxHistory == 2

Signatures == 1..MaxSigs

\* Option<T>: None and Some(x)
None == <<>>
Some(x) == <<x>>
IsSome(o) == o # None
Unwrap(o) == o[1]

VARIABLES
    ledger,        \* confirmed signatures of the address, oldest first
    receiverOpen,  \* the Receiver end of event_sender still exists
    pc,            \* position of the worker thread in run
    until,         \* run's local `until` (the cursor)
    config,        \* the request built by the match at the top of the loop
    iter,          \* rest of the for loop's iterator: <<i, signature>> pairs
    cur,           \* the <<i, signature>> the loop body is executing for
    events,        \* `events` of the loop body, after the decode
    queue,         \* the Vecs sent on the channel, in send order
    joined,        \* outcome of EventPoller::join in the caller
    \* history of the run, for stating the properties
    pushed,        \* signature of each sent Vec, in send order
    decoded,       \* signature of each decode call, in call order
    response,      \* signatures of the last successful RPC response
    fetchLen,      \* Len(ledger) at the last successful RPC call, -1 before
    prevFetchLen,  \* fetchLen of the successful call before that one
    pushedAtFetch, \* Len(pushed) at the last successful RPC call
    decodedAtFetch,\* Len(decoded) at the last successful RPC call
    fetchFailed    \* an RPC call has returned Err

vars == <<ledger, receiverOpen, pc, until, config, iter, cur, events, queue,
          joined, pushed, decoded, response, fetchLen, prevFetchLen,
          pushedAtFetch, decodedAtFetch, fetchFailed>>

workerVars == <<pc, until, config, iter, cur, events, queue, pushed, decoded,
                response, fetchLen, prevFetchLen, pushedAtFetch,
                decodedAtFetch, fetchFailed>>

----------------------------------------------------------------------------
\* Helpers on sequences

Range(s) == {s[k] : k \in 1..Len(s)}

NoDup(s) == \A a, b \in 1..Len(s) : s[a] = s[b] => a = b

\* 1-based position of x in s, 0 when absent
Pos(s, x) == IF \E k \in 1..Len(s) : s[k] = x
             THEN CHOOSE k \in 1..Len(s) : s[k] = x
             ELSE 0

Min(a, b) == IF a < b THEN a ELSE b

\* Iterator::rev
Rev(s) == [k \in 1..Len(s) |-> s[Len(s) + 1 - k]]

\* Iterator::enumerate: pairs <<index from 0, item>>
Enumerate(s) == [k \in 1..Len(s) |-> <<k - 1, s[k]>>]

----------------------------------------------------------------------------
\* The base58 text form in which the RPC reports a signature, and its parse.
ToString(sig) == <<"base58", sig>>
FromStr(str) == str[2]

\* One RpcConfirmedTransactionStatusWithSignature of a response
TxStatus(sig) == [signature |-> ToString(sig)]

\* get_signatures_for_address_with_config: the confirmed signatures of the
\* address, most recent first, strictly newer than config.until when it is
\* given, at most config.limit of them when it is given.
GetSignaturesForAddress(l, cfg) ==
    LET from   == IF IsSome(cfg.until) THEN Pos(l, Unwrap(cfg.until)) ELSE 0
        newer  == SubSeq(l, from + 1, Len(l))
        recent == Rev(newer)
        n      == IF IsSome(cfg.limit)
                  THEN Min(Unwrap(cfg.limit), Len(recent))
                  ELSE Len(recent)
    IN  [k \in 1..n |-> TxStatus(recent[k])]

\* Outcomes of sdk.parse_events_from_transaction(&signature): None on a
\* transport or deserialization failure, else the events of the transaction.
PhoenixEvent(sig, k) == [tx |-> sig, index |-> k]
ParseOutcomes(sig) ==
    {None, Some(<<>>), Some(<<PhoenixEvent(sig, 0)>>)}

----------------------------------------------------------------------------
\* Pieces of run

\* Variant of Config: the Some arm forgets the lower bound.
ConfigNoLowerBound(u) ==
    IF u = None
    THEN [before |-> None, until |-> None, limit |-> Some(1),
          commitment |-> "confirmed"]
    ELSE [before |-> None, until |-> None, limit |-> None,
          commitment |-> "confirmed"]

\* Variant of Config: the Some arm keeps the count limit of the None arm.
ConfigLimitOne(u) ==
    IF u = None
    THEN [before |-> None, until |-> None, limit |-> Some(1),
          commitment |-> "confirmed"]
    ELSE [before |-> None, until |-> Some(Unwrap(u)), limit |-> Some(1),
          commitment |-> "confirmed"]

\* Variant of Config: the None arm asks for the whole history.
ConfigBackfill(u) ==
    IF u = None
    THEN [before |-> None, until |-> None, limit |-> None,
          commitment |-> "confirmed"]
    ELSE [before |-> None, until |-> Some(Unwrap(u)), limit |-> None,
          commitment |-> "confirmed"]

\* match until { None => ..., Some(until) => ... }
Config(u) ==
    IF u = None
    THEN [before |-> None, until |-> None, limit |-> Some(1),
          commitment |-> "confirmed"]
    ELSE [before |-> None, until |-> Some(Unwrap(u)), limit |-> None,
          commitment |-> "confirmed"]

\* .iter().map(|tx| Signature::from_str(&tx.signature).unwrap())
ResponseSignatures(resp) == [k \in 1..Len(resp) |-> FromStr(resp[k].signature)]

\* Variant of WalkOrder: the .rev() is missing.
WalkOrderNoRev(sigs) == Enumerate(sigs)

\* .enumerate().rev()
WalkOrder(sigs) == Rev(Enumerate(sigs))

\* Variant of NextUntil: the index test is off by one.
NextUntilOffByOne(i, signature, u) == IF i = 1 THEN Some(signature) ELSE u

\* Variant of NextUntil: the cursor follows every visited signature.
NextUntilAlways(i, signature, u) == Some(signature)

\* if i == 0 { until = Some(signature); }
NextUntil(i, signature, u) == IF i = 0 THEN Some(signature) ELSE u

\* .unwrap_or_default()
UnwrapOrDefault(o) == IF IsSome(o) THEN Unwrap(o) ELSE <<>>

\* events.iter().map(|&e| SDKMarketEvent::PhoenixEvent { event: Box::new(e) })
MarketEvents(evs) == [k \in 1..Len(evs) |-> [PhoenixEvent |-> evs[k]]]

\* Variant of JoinOutcome: a panic of the worker is reported as None.
JoinOutcomeSwallowPanic(p) == "None"

\* self.worker.join().unwrap(): the value run returned, or the propagated
\* panic of the worker thread
JoinOutcome(p) == IF p = "returned" THEN "None" ELSE "panic"

----------------------------------------------------------------------------
TypeOK ==
    /\ ledger \in Seq(Signatures) /\ NoDup(ledger)
    /\ receiverOpen \in BOOLEAN
    /\ pc \in {"loop", "fetch", "next", "decode", "send", "sleep",
               "returned", "panicked"}
    /\ until \in {None} \cup {Some(s) : s \in Signatures}
    /\ joined \in {"pending", "None", "panic"}

Histories ==
    {h \in UNION {[1..n -> Signatures] : n \in 0..MaxHistory} : NoDup(h)}

\* EventPoller::new has spawned the worker; run is at `let mut until = None`.
Init ==
    /\ ledger \in Histories
    /\ receiverOpen = TRUE
    /\ pc = "loop"
    /\ until = None
    /\ config = Config(None)
    /\ iter = <<>>
    /\ cur = <<>>
    /\ events = <<>>
    /\ queue = <<>>
    /\ joined = "pending"
    /\ pushed = <<>>
    /\ decoded = <<>>
    /\ response = <<>>
    /\ fetchLen = -1
    /\ prevFetchLen = -1
    /\ pushedAtFetch = 0
    /\ decodedAtFetch = 0
    /\ fetchFailed = FALSE

----------------------------------------------------------------------------
\* Environment

\* A new transaction of the address is confirmed.
Confirm(s) ==
    /\ s \notin Range(ledger)
    /\ ledger' = Append(ledger, s)
    /\ UNCHANGED <<receiverOpen, joined>>
    /\ UNCHANGED workerVars

\* The consumer drops the Receiver.
DropReceiver ==
    /\ receiverOpen
    /\ receiverOpen' = FALSE
    /\ UNCHANGED <<ledger, joined>>
    /\ UNCHANGED workerVars

----------------------------------------------------------------------------
\* The worker: EventPoller::run

\* Variant of BuildConfig: the request is built once, before the loop.
BuildConfigOnce ==
    /\ pc = "loop"
    /\ pc' = "fetch"
    /\ UNCHANGED <<ledger, receiverOpen, joined, until, config, iter, cur,
                   events, queue, pushed, decoded, response, fetchLen,
                   prevFetchLen, pushedAtFetch, decodedAtFetch, fetchFailed>>

\* top of the loop: let config = match until {...}
BuildConfig ==
    /\ pc = "loop"
    /\ config' = Config(until)
    /\ pc' = "fetch"
    /\ UNCHANGED <<ledger, receiverOpen, joined, until, iter, cur, events,
                   queue, pushed, decoded, response, fetchLen, prevFetchLen,
                   pushedAtFetch, decodedAtFetch, fetchFailed>>

\* the RPC call returns Ok: the for loop gets its iterator
FetchOk ==
    /\ pc = "fetch"
    /\ LET sigs == ResponseSignatures(GetSignaturesForAddress(ledger, config))
       IN  /\ iter' = WalkOrder(sigs)
           /\ response' = sigs
    /\ prevFetchLen' = fetchLen
    /\ fetchLen' = Len(ledger)
    /\ pushedAtFetch' = Len(pushed)
    /\ decodedAtFetch' = Len(decoded)
    /\ pc' = "next"
    /\ UNCHANGED <<ledger, receiverOpen, joined, until, config, cur, events,
                   queue, pushed, decoded, fetchFailed>>

\* Variant of FetchErr: the error is swallowed and the call retried after
\* the sleep.
FetchErrRetry ==
    /\ pc = "fetch"
    /\ pc' = "sleep"
    /\ fetchFailed' = TRUE
    /\ UNCHANGED <<ledger, receiverOpen, joined, until, config, iter, cur,
                   events, queue, pushed, decoded, response, fetchLen,
                   prevFetchLen, pushedAtFetch, decodedAtFetch>>

\* the RPC call returns Err: .ok()? makes run return None
FetchErr ==
    /\ pc = "fetch"
    /\ pc' = "returned"
    /\ fetchFailed' = TRUE
    /\ UNCHANGED <<ledger, receiverOpen, joined, until, config, iter, cur,
                   events, queue, pushed, decoded, response, fetchLen,
                   prevFetchLen, pushedAtFetch, decodedAtFetch>>

\* Variant of IterNext: the decode is spawned and not awaited, the loop goes
\* on to the next signature.
IterNextSpawn ==
    /\ pc = "next"
    /\ iter # <<>>
    /\ cur' = Head(iter)
    /\ iter' = Tail(iter)
    /\ until' = NextUntil(Head(iter)[1], Head(iter)[2], until)
    /\ decoded' = Append(decoded, Head(iter)[2])
    /\ pc' = "next"
    /\ UNCHANGED <<ledger, receiverOpen, joined, config, events, queue,
                   pushed, response, fetchLen, prevFetchLen, pushedAtFetch,
                   decodedAtFetch, fetchFailed>>

\* the iterator yields (i, signature): the cursor update, then the decode
\* is started under block_on
IterNext ==
    /\ pc = "next"
    /\ iter # <<>>
    /\ cur' = Head(iter)
    /\ iter' = Tail(iter)
    /\ until' = NextUntil(Head(iter)[1], Head(iter)[2], until)
    /\ decoded' = Append(decoded, Head(iter)[2])
    /\ pc' = "decode"
    /\ UNCHANGED <<ledger, receiverOpen, joined, config, events, queue,
                   pushed, response, fetchLen, prevFetchLen, pushedAtFetch,
                   decodedAtFetch, fetchFailed>>

\* Variant of IterEnd: the cursor is taken from the head of the response
\* after the loop, also when the response is empty.
IterEndCursorFromResponse ==
    /\ pc = "next"
    /\ iter = <<>>
    /\ until' = IF response = <<>> THEN None ELSE Some(response[1])
    /\ pc' = "sleep"
    /\ UNCHANGED <<ledger, receiverOpen, joined, config, iter, cur,
                   events, queue, pushed, decoded, response, fetchLen,
                   prevFetchLen, pushedAtFetch, decodedAtFetch, fetchFailed>>

\* Variant of IterEnd: run returns when a response was empty.
IterEndReturn ==
    /\ pc = "next"
    /\ iter = <<>>
    /\ pc' = IF response = <<>> THEN "returned" ELSE "sleep"
    /\ UNCHANGED <<ledger, receiverOpen, joined, until, config, iter, cur,
                   events, queue, pushed, decoded, response, fetchLen,
                   prevFetchLen, pushedAtFetch, decodedAtFetch, fetchFailed>>

\* Variant of IterEnd: the sleep is missing, the loop starts over at once.
IterEndNoSleep ==
    /\ pc = "next"
    /\ iter = <<>>
    /\ pc' = "loop"
    /\ UNCHANGED <<ledger, receiverOpen, joined, until, config, iter, cur,
                   events, queue, pushed, decoded, response, fetchLen,
                   prevFetchLen, pushedAtFetch, decodedAtFetch, fetchFailed>>

\* the iterator is exhausted: the for loop ends
IterEnd ==
    /\ pc = "next"
    /\ iter = <<>>
    /\ pc' = "sleep"
    /\ UNCHANGED <<ledger, receiverOpen, joined, until, config, iter, cur,
                   events, queue, pushed, decoded, response, fetchLen,
                   prevFetchLen, pushedAtFetch, decodedAtFetch, fetchFailed>>

\* Variant of DecodeDone: `?` in place of unwrap_or_default, a failed decode
\* makes run return None.
DecodeDoneAbort ==
    /\ pc = "decode"
    /\ \E o \in ParseOutcomes(cur[2]) :
          /\ events' = UnwrapOrDefault(o)
          /\ pc' = IF o = None THEN "returned" ELSE "send"
    /\ UNCHANGED <<ledger, receiverOpen, joined, until, config, iter, cur,
                   queue, pushed, decoded, response, fetchLen, prevFetchLen,
                   pushedAtFetch, decodedAtFetch, fetchFailed>>

\* block_on returns the outcome of parse_events_from_transaction
DecodeDone ==
    /\ pc = "decode"
    /\ \E o \in ParseOutcomes(cur[2]) : events' = UnwrapOrDefault(o)
    /\ pc' = "send"
    /\ UNCHANGED <<ledger, receiverOpen, joined, until, config, iter, cur,
                   queue, pushed, decoded, response, fetchLen, prevFetchLen,
                   pushedAtFetch, decodedAtFetch, fetchFailed>>

\* Variant of SendOk: an empty Vec is not sent.
SendOkSkipEmpty ==
    /\ pc = "send"
    /\ receiverOpen
    /\ queue' = IF events = <<>> THEN queue
                 ELSE Append(queue, MarketEvents(events))
    /\ pushed' = IF events = <<>> THEN pushed ELSE Append(pushed, cur[2])
    /\ pc' = "next"
    /\ UNCHANGED <<ledger, receiverOpen, joined, until, config, iter, cur,
                   events, decoded, response, fetchLen, prevFetchLen,
                   pushedAtFetch, decodedAtFetch, fetchFailed>>

\* event_sender.send(...) returns Ok
SendOk ==
    /\ pc = "send"
    /\ receiverOpen
    /\ queue' = Append(queue, MarketEvents(events))
    /\ pushed' = Append(pushed, cur[2])
    /\ pc' = "next"
    /\ UNCHANGED <<ledger, receiverOpen, joined, until, config, iter, cur,
                   events, decoded, response, fetchLen, prevFetchLen,
                   pushedAtFetch, decodedAtFetch, fetchFailed>>

\* event_sender.send(...) returns Err (receiver dropped): .unwrap() panics
SendErr ==
    /\ pc = "send"
    /\ ~receiverOpen
    /\ pc' = "panicked"
    /\ UNCHANGED <<ledger, receiverOpen, joined, until, config, iter, cur,
                   events, queue, pushed, decoded, response, fetchLen,
                   prevFetchLen, pushedAtFetch, decodedAtFetch, fetchFailed>>

\* Variant of Sleep: `until` is declared inside the loop, so every iteration
\* starts from None.
SleepResetCursor ==
    /\ pc = "sleep"
    /\ pc' = "loop"
    /\ until' = None
    /\ UNCHANGED <<ledger, receiverOpen, joined, config, iter, cur,
                   events, queue, pushed, decoded, response, fetchLen,
                   prevFetchLen, pushedAtFetch, decodedAtFetch, fetchFailed>>

\* std::thread::sleep(timeout_ms) is over: back to the top of the loop
Sleep ==
    /\ pc = "sleep"
    /\ pc' = "loop"
    /\ UNCHANGED <<ledger, receiverOpen, joined, until, config, iter, cur,
                   events, queue, pushed, decoded, response, fetchLen,
                   prevFetchLen, pushedAtFetch, decodedAtFetch, fetchFailed>>

\* EventPoller::join: blocks until the worker thread has ended
Join ==
    /\ joined = "pending"
    /\ pc \in {"returned", "panicked"}
    /\ joined' = JoinOutcome(pc)
    /\ UNCHANGED <<ledger, receiverOpen>>
    /\ UNCHANGED workerVars

Next ==
    \/ \E s \in Signatures : Confirm(s)
    \/ DropReceiver
    \/ BuildConfig
    \/ FetchOk
    \/ FetchErr
    \/ IterNext
    \/ IterEnd
    \/ DecodeDone
    \/ SendOk
    \/ SendErr
    \/ Sleep
    \/ Join

Spec == Init /\ [][Next]_vars

\* A step of the worker thread
WorkerStep ==
    \/ BuildConfig
    \/ FetchOk
    \/ FetchErr
    \/ IterNext
    \/ IterEnd
    \/ DecodeDone
    \/ SendOk
    \/ SendErr
    \/ Sleep

\* The worker is a thread of its own: while it has not ended it is scheduled,
\* the RPC call and the decode come back and the sleep ends.
FairSpec == Spec /\ WF_vars(WorkerStep)

----------------------------------------------------------------------------
\* Properties

\* Position of a signature in the confirmation order of the ledger
Order(sig) == Pos(ledger, sig)

\* The signatures sent since the last successful RPC call
PushedThisCycle == SubSeq(pushed, pushedAtFetch + 1, Len(pushed))

\* C1 (Ordering): whenever two transactions of the address have both had
\* their Vec sent, the one confirmed earlier on the ledger was sent strictly
\* earlier, whether they came from one response or from different cycles.
C1_Ordering ==
    /\ Len(queue) = Len(pushed)
    /\ \A a, b \in 1..Len(pushed) :
          Order(pushed[a]) < Order(pushed[b]) => a < b

\* Two signatures of one response and one of an earlier cycle have been sent.
C1_Witness ==
    /\ pushedAtFetch >= 1
    /\ Len(response) >= 2
    /\ Len(pushed) >= pushedAtFetch + 2

\* C2 (No duplication): no signature is sent twice, and no response contains
\* a signature that had been sent before the call that returned it.
C2_NoDuplication ==
    /\ NoDup(pushed)
    /\ \A k \in 1..Len(response) : \A j \in 1..pushedAtFetch :
          response[k] # pushed[j]

\* A later cycle has fetched and sent new signatures after two earlier sends.
C2_Witness ==
    /\ pushedAtFetch >= 2
    /\ Len(response) >= 1
    /\ pc = "sleep"

\* C3 (No skip between polls): when the cycle of the second of two
\* consecutive successful calls is complete, every transaction confirmed
\* between the two calls has been sent, whether the cursor was set or not.
C3_NoSkipBetweenPolls ==
    (pc = "sleep" /\ prevFetchLen >= 0) =>
        \A k \in (prevFetchLen + 1)..fetchLen : ledger[k] \in Range(pushed)

\* C4 (Full capture once the cursor is set): a completed cycle whose request
\* carried a cursor has sent exactly the transactions confirmed after the
\* cursor signature before the call, each once, in confirmation order.
C4_FullCapture ==
    (pc = "sleep" /\ IsSome(config.until)) =>
        PushedThisCycle =
            SubSeq(ledger, Order(Unwrap(config.until)) + 1, fetchLen)

\* A completed cycle with a cursor has captured three transactions at once.
C4_Witness ==
    /\ pc = "sleep"
    /\ IsSome(config.until)
    /\ Len(PushedThisCycle) >= 3

\* C5 (Empty-batch idempotence): after a successful call with an empty
\* response, and until the next call, no decode has been invoked, nothing
\* has been sent, the cursor is what it was, and the worker is on its way
\* through the sleep to the next call.
C5_EmptyBatch ==
    (fetchLen >= 0 /\ response = <<>>) =>
        /\ Len(decoded) = decodedAtFetch
        /\ Len(queue) = pushedAtFetch
        /\ Len(pushed) = pushedAtFetch
        /\ until = config.until
        /\ pc \in {"next", "sleep", "loop", "fetch", "returned"}

\* An empty cycle is complete, with the cursor set and a Vec sent before.
C5_Witness ==
    /\ pc = "sleep"
    /\ fetchLen >= 0
    /\ response = <<>>
    /\ IsSome(until)
    /\ Len(queue) >= 1

\* C6 (Decode-failure isolation): a decode that fails or yields no events
\* never ends the worker; the completed cycle has sent one Vec for every
\* signature of the response, oldest first, and the cursor is then at or
\* past every signature whose Vec is empty.
C6_DecodeFailureIsolation ==
    /\ pc = "returned" => Len(decoded) = Len(pushed)
    /\ pc = "panicked" => ~receiverOpen
    /\ pc = "sleep" =>
          /\ PushedThisCycle = Rev(response)
          /\ \A k \in 1..Len(queue) :
                queue[k] = <<>> =>
                    /\ IsSome(until)
                    /\ Order(Unwrap(until)) >= Order(pushed[k])

\* A completed cycle of three signatures whose middle decode gave nothing.
C6_Witness ==
    /\ pc = "sleep"
    /\ Len(response) = 3
    /\ Len(queue) = pushedAtFetch + 3
    /\ queue[pushedAtFetch + 1] # <<>>
    /\ queue[pushedAtFetch + 2] = <<>>
    /\ queue[pushedAtFetch + 3] # <<>>

\* C7 (Fail-stop on fetch error): once an RPC call has failed the worker has
\* returned, no decode is outstanding, nothing of the worker changes any
\* more (no retry, no decode, no send, the sent Vecs stay), and join, once
\* it returns, returns None.
C7_FailStop ==
    /\ [](fetchFailed =>
            /\ pc = "returned"
            /\ Len(decoded) = Len(pushed)
            /\ joined \in {"pending", "None"})
    /\ [][fetchFailed => UNCHANGED <<pc, until, config, iter, queue, pushed,
                                     decoded, response>>]_vars

\* The call of a later cycle failed and join has returned.
C7_Witness ==
    /\ fetchFailed
    /\ Len(pushed) >= 2
    /\ joined = "None"

\* C8 (Cursor monotonicity): every change of the cursor sets it to a
\* signature, and to one confirmed strictly later than the previous one.
C8_CursorMonotonic ==
    [][until' # until =>
          /\ IsSome(until')
          /\ IsSome(until) =>
                Pos(ledger', Unwrap(until)) < Pos(ledger', Unwrap(until'))]_vars

\* The cursor has moved from one signature to a later one within a cycle.
C8_Witness ==
    /\ IsSome(config.until)
    /\ IsSome(until)
    /\ until # config.until

\* C9 (Fetch request shape): the request of every RPC call is, when the
\* cursor is unset, limit 1 without lower bound, and when it is set, the
\* cursor as lower bound without limit.
C9_RequestShape ==
    pc = "fetch" =>
        /\ config.before = None
        /\ until = None => (config.until = None /\ config.limit = Some(1))
        /\ until # None => (config.until = until /\ config.limit = None)

\* A call is about to be issued with the cursor set.
C9_Witness ==
    /\ pc = "fetch"
    /\ IsSome(until)
    /\ Len(pushed) >= 2

\* C10 (Fatal failures are observed through join), as stated: whenever join
\* is over, it has returned the None outcome.
C10_JoinReturnsNone ==
    joined # "pending" => joined = "None"

\* C10, amended: after either fatal failure nothing of the worker changes
\* any more; join returns None exactly after a failed RPC call, and after a
\* send on a closed channel it propagates the worker's panic instead.
C10_FatalFailures ==
    /\ [](/\ pc = "returned" => fetchFailed
          /\ pc = "panicked" => (~receiverOpen /\ ~fetchFailed)
          /\ joined = "None" => pc = "returned"
          /\ joined = "panic" => pc = "panicked")
    /\ [][(pc = "returned" \/ pc = "panicked") => UNCHANGED <<workerVars>>]_vars

\* join is over after a send on a closed channel.
C10_Witness ==
    /\ pc = "panicked"
    /\ joined = "panic"
    /\ Len(pushed) >= 1

\* C11 (Seeding without backfill): a response to a request without cursor
\* holds at most the one most recent signature; the cycle that gets one is
\* the first to send anything, sends exactly that one Vec and leaves the
\* cursor on it; and no transaction confirmed before the first decoded one
\* is ever decoded or sent.
C11_SeedingWithoutBackfill ==
    /\ (fetchLen >= 0 /\ config.until = None /\ response # <<>>
            /\ pc \in {"next", "decode", "send", "sleep", "panicked"}) =>
          /\ response = <<ledger[fetchLen]>>
          /\ pushedAtFetch = 0
          /\ pc = "sleep" =>
                (pushed = response /\ until = Some(response[1]))
    /\ \A k \in 1..Len(decoded) : Order(decoded[k]) >= Order(decoded[1])
    /\ \A k \in 1..Len(pushed) : Order(pushed[k]) >= Order(decoded[1])

\* The worker was seeded on an address with older history and has sent
\* later transactions since.
C11_Witness ==
    /\ Len(pushed) >= 2
    /\ Order(pushed[1]) >= 2
    /\ pc = "sleep"

\* C12 (Per-cycle result): a completed cycle with a non-empty response has
\* sent the response in exactly reversed order and left the cursor on the
\* first element of the response, and the request of the next call carries
\* that element as lower bound.
C12_PerCycleResult ==
    (fetchLen >= 0 /\ response # <<>>) =>
        /\ pc = "sleep" =>
              /\ \A k \in 1..Len(response) :
                    pushed[pushedAtFetch + k] =
                        response[Len(response) + 1 - k]
              /\ Len(pushed) = pushedAtFetch + Len(response)
              /\ until = Some(response[1])
        /\ pc = "fetch" => config.until = Some(response[1])

\* The next call is about to be issued after a cycle of two signatures.
C12_Witness ==
    /\ pc = "fetch"
    /\ Len(response) >= 2
    /\ config.until = Some(response[1])

\* C13 (Cursor marks only delivered transactions), as stated: whenever the
\* cursor is set, the Vec of the cursor signature has been sent.
C13_CursorDelivered ==
    IsSome(until) => Unwrap(until) \in Range(pushed)

\* C13, amended: whenever the cursor is set, the Vec of the cursor signature
\* has been sent, except while the worker is in the loop body for the newest
\* signature of the response (index 0), where the cursor is already on that
\* signature before its decode and its send.
C13_CursorDeliveredOrInBody ==
    IsSome(until) =>
        \/ Unwrap(until) \in Range(pushed)
        \/ /\ pc \in {"decode", "send", "panicked"}
           /\ cur = <<0, Unwrap(until)>>

\* The cursor is on the signature whose decode is still awaited.
C13_Witness ==
    /\ pc = "decode"
    /\ until = Some(cur[2])
    /\ cur[2] \notin Range(pushed)
    /\ Len(pushed) >= 1

\* C14 (Strictly sequential decode and dispatch): at most one decode is
\* started and not yet sent, and only inside the loop body; the decodes are
\* started in confirmation order; every earlier decoded signature has been
\* sent before the next decode starts; no call is issued with a decode or a
\* send of the cycle outstanding.
C14_Sequential ==
    /\ Len(decoded) = Len(pushed)
          + (IF pc \in {"decode", "send", "panicked"} THEN 1 ELSE 0)
    /\ \A k \in 1..Len(pushed) : pushed[k] = decoded[k]
    /\ \A a, b \in 1..Len(decoded) :
          a < b => Order(decoded[a]) < Order(decoded[b])
    /\ pc = "fetch" => (iter = <<>> /\ Len(decoded) = Len(pushed))

\* The second decode of a cycle is in flight, the first has been sent.
C14_Witness ==
    /\ pc = "decode"
    /\ Len(decoded) = decodedAtFetch + 2
    /\ Len(pushed) = pushedAtFetch + 1

\* C15 (One batch per fetched signature): a completed cycle has sent as many
\* Vecs as its response has signatures, every sent Vec is the empty one or
\* the events of its own signature, and the send of an empty `events` puts
\* an empty Vec on the channel.
C15_OneBatchPerSignature ==
    /\ [](/\ Len(queue) = Len(pushed)
          /\ pc = "sleep" => Len(queue) = pushedAtFetch + Len(response)
          /\ \A k \in 1..Len(queue) :
                \/ queue[k] = <<>>
                \/ queue[k] = <<[PhoenixEvent |-> [tx |-> pushed[k],
                                                   index |-> 0]]>>)
    /\ [][(pc = "send" /\ pc' = "next") =>
            /\ Len(queue') = Len(queue) + 1
            /\ events = <<>> => queue'[Len(queue')] = <<>>]_vars

\* A completed cycle of two signatures has sent one empty and one non-empty
\* Vec.
C15_Witness ==
    /\ pc = "sleep"
    /\ Len(response) = 2
    /\ Len(queue) = pushedAtFetch + 2
    /\ queue[pushedAtFetch + 1] = <<>>
    /\ queue[pushedAtFetch + 2] # <<>>

\* C16 (Termination only on fetch failure): run has returned only after a
\* failed RPC call, and join is over only after the worker has ended; in
\* every run in which no call fails and the receiver stays, the worker comes
\* back to the RPC call again and again.
C16_TerminationOnlyOnFetchFailure ==
    /\ [](/\ pc = "returned" => fetchFailed
          /\ pc = "panicked" => ~receiverOpen
          /\ joined # "pending" => (fetchFailed \/ ~receiverOpen))
    /\ (<>(fetchFailed \/ ~receiverOpen) \/ []<>(pc = "fetch"))

\* The worker is at the call of a later cycle, still running, join pending.
C16_Witness ==
    /\ pc = "fetch"
    /\ ~fetchFailed
    /\ receiverOpen
    /\ joined = "pending"
    /\ Len(pushed) = MaxSigs

\* C17 (Sleep between cycles): the call is reached only from the top of the
\* loop, the top of the loop only from the sleep, and the sleep only from
\* the exhausted for loop, so that one sleep lies between two calls; when
\* the sleep starts every Vec of the cycle has been sent, also when there
\* are none; after a failed call the worker is not sleeping.
C17_SleepBetweenCycles ==
    /\ [](/\ pc = "sleep" =>
                /\ iter = <<>>
                /\ fetchLen >= 0
                /\ Len(pushed) = pushedAtFetch + Len(response)
                /\ Len(decoded) = Len(pushed)
          /\ fetchFailed => pc # "sleep")
    /\ [][/\ (pc' = "fetch" /\ pc # "fetch") => pc = "loop"
          /\ (pc' = "loop" /\ pc # "loop") => pc = "sleep"
          /\ (pc' = "sleep" /\ pc # "sleep") => (pc = "next" /\ iter = <<>>)
          /\ (pc = "sleep" /\ pc' # "sleep") => pc' = "loop"
          /\ (pc = "loop" /\ pc' # "loop") => pc' = "fetch"]_vars

\* The sleep after the two-signature cycle of a later call is over.
C17_Witness ==
    /\ pc = "loop"
    /\ prevFetchLen >= 0
    /\ Len(response) >= 2

\* C18 (Cursor equals the last push at every fetch): at every RPC call the
\* cursor is unset exactly when nothing has been sent, else it is the
\* signature of the last sent Vec, and no sent signature is newer than the
\* lower bound of the request.
C18_CursorIsLastPush ==
    pc = "fetch" =>
        /\ (until = None) <=> (pushed = <<>>)
        /\ pushed # <<>> =>
              /\ until = Some(pushed[Len(pushed)])
              /\ IsSome(config.until)
              /\ \A s \in Range(pushed) :
                    Order(s) <= Order(Unwrap(config.until))

\* A call is about to be issued after three sends.
C18_Witness ==
    /\ pc = "fetch"
    /\ Len(pushed) >= 3

====
